---------------------------- MODULE Spec2Model ----------------------------
(***************************************************************************)
(* A model of the CORSIKA shower reader: the framed block stream           *)
(* (RawStream.cxx), the particle iterator (RawParticleIterator.cxx) and    *)
(* the shower facade (CorsikaShowerFile.cxx).                              *)
(*                                                                         *)
(* Files are sequences of units.  A unit is a record [w, b]: w is the unit *)
(* read as a 32-bit word, b is the unit read as the remainder of a         *)
(* sub-block (its fields after the first word).  A padding word and the    *)
(* first word of a sub-block are one unit each, the rest of a sub-block is *)
(* one unit.  The first 8 bytes of a file are its first two units.         *)
(***************************************************************************)
EXTENDS Integers, Sequences, FiniteSets, TLC

(***************************************************************************)
(* Bounds of the model.                                                    *)
(***************************************************************************)
\* events per shower file: 0..MaxEvents
MaxEvents == 2
\* particle records per particle sub-block (the source constant, scaled down)
kParticlesInBlock == 2
\* entries per longitudinal sub-block (the source constant, scaled down)
kLongEntriesPerBlock == 2
\* sub-blocks of the longitudinal chain of an event
LongChainBlocks == 2
\* seek targets reach this many blocks past the end of the file
SeekPastEnd == 1
\* sub-blocks per disk sector of an unthinned file (the source constant,
\* scaled down)
NotThinnedSubBlocks == 3

Min(a, b) == IF a < b THEN a ELSE b

(***************************************************************************)
(* Shape constants.  The thinning structs are not part of the sources at   *)
(* hand; their values are those of the specification.                      *)
(***************************************************************************)
\* Thinning::kSubBlocksPerBlock: sub-blocks per disk sector
kSubBlocksPerBlock(th) == IF th = "Thinned" THEN 1 ELSE NotThinnedSubBlocks

\* bytes of one sub-block
BytesPerSubBlock(th) == IF th = "Thinned" THEN 312 * 4 ELSE 273 * 4

\* Thinning::kBytesPerBlock: the payload bytes of a disk sector, the value
\* the leading padding word of a sector holds
kBytesPerBlock(th) == kSubBlocksPerBlock(th) * BytesPerSubBlock(th)

\* the first word of a control sub-block ("RUNH", ... read as a number)
Tag(name) ==
  CASE name = "RUNH" -> 101
    [] name = "RUNE" -> 102
    [] name = "EVTH" -> 103
    [] name = "EVTE" -> 104
    [] name = "LONG" -> 105

(***************************************************************************)
(* Units, sub-blocks and the classifier.                                   *)
(***************************************************************************)
W(v) == [w |-> v, b |-> <<>>]
Body(fields) == [w |-> IF fields = <<>> THEN 0 ELSE fields[1], b |-> fields]

\* a sub-block as the stream hands it out
MkBlock(tag, fields) == [tag |-> tag, body |-> fields]
NoBlock == MkBlock(0, <<>>)

\* field i (from 1) of a sub-block's record part, zero when absent
Field(block, i) == IF i <= Len(block.body) THEN block.body[i] ELSE 0

IsRunHeader(block) == block.tag = Tag("RUNH")
IsRunTrailer(block) == block.tag = Tag("RUNE")
IsEventHeader(block) == block.tag = Tag("EVTH")
IsEventTrailer(block) == block.tag = Tag("EVTE")
IsLongitudinal(block) == block.tag = Tag("LONG")
IsControl(block) ==
  IsRunHeader(block) \/ IsRunTrailer(block) \/ IsEventHeader(block)
    \/ IsEventTrailer(block)

\* particle record i (from 0) of a sub-block read as a particle block: its id
ParticleAt(block, i) == IF i = 0 THEN block.tag ELSE Field(block, i)

(***************************************************************************)
(* Shower files.  A file name is a record describing the file; FileUnits   *)
(* gives its content.                                                      *)
(*   th, pad  the shape the file is written in (pad: 32-bit words per      *)
(*            padding, 1 for 32-bit framing and 2 for 64-bit framing)      *)
(*   n        number of events, np particle sub-blocks per event           *)
(*   long     which events carry a chain of longitudinal sub-blocks        *)
(*   ids      order of the event numbers                                   *)
(*   dmg      the damages <<code, a, b>> done to the well-formed file      *)
(*   seekable whether the byte source supports seek                        *)
(*   side     number of profiles in the .long companion, -1 when absent    *)
(***************************************************************************)
FileName(th, pad, n, np, long, ids, dmg, seekable, side) ==
  [th |-> th, pad |-> pad, n |-> n, np |-> np, long |-> long, ids |-> ids,
   dmg |-> dmg, seekable |-> seekable, side |-> side]

RECURSIVE Concat(_)
Concat(ss) == IF ss = <<>> THEN <<>> ELSE Head(ss) \o Concat(Tail(ss))

\* event number of the event in slot e (from 1)
EventId(d, e) == IF d.ids = "asc" THEN e ELSE d.n + 1 - e

HasLong(d, e) == d.long \in {"all", "gap"} \/ (d.long = "first" /\ e = 1)

\* the chain holds LongSteps entries with depths 1, 2, ...; entries past
\* them are zero
LongSteps == kLongEntriesPerBlock + 1
LongDepth(k) == IF k <= LongSteps THEN k ELSE 0
LongBlock(b) ==
  MkBlock(Tag("LONG"),
          <<LongSteps * 100 + LongChainBlocks>> \o
          [i \in 1..kLongEntriesPerBlock |->
             LongDepth((b - 1) * kLongEntriesPerBlock + i)])

\* the chain of a file with long = "gap": the same with the depth of its
\* second entry zero
LongGapBlock(b) ==
  MkBlock(Tag("LONG"),
          <<LongSteps * 100 + LongChainBlocks>> \o
          [i \in 1..kLongEntriesPerBlock |->
             IF b = 1 /\ i = 2 THEN 0
             ELSE LongDepth((b - 1) * kLongEntriesPerBlock + i)])

LongBlockOf(d, b) == IF d.long = "gap" THEN LongGapBlock(b) ELSE LongBlock(b)

\* particle sub-block j of event e; its last record is padding (id zero)
ParticleId(e, j, i) == IF i = kParticlesInBlock THEN 0 ELSE 100 * j + 10 * e + i
ParticleBlock(e, j) ==
  MkBlock(ParticleId(e, j, 1),
          [i \in 1..(kParticlesInBlock - 1) |-> ParticleId(e, j, i + 1)])

ZeroBlock == MkBlock(0, [i \in 1..(kParticlesInBlock - 1) |-> 0])

\* observation levels the header of event e declares: e of them, or one
\* less (none for the first event) in the files whose event numbers run up
ObsLevels(d, e) == IF d.ids = "asc" THEN e - 1 ELSE e

EventBlocks(d, e) ==
  <<MkBlock(Tag("EVTH"), <<EventId(d, e), ObsLevels(d, e)>>)>>
    \o [j \in 1..d.np |-> ParticleBlock(e, j)]
    \o (IF HasLong(d, e) THEN [b \in 1..LongChainBlocks |-> LongBlockOf(d, b)]
        ELSE <<>>)
    \o <<MkBlock(Tag("EVTE"), <<EventId(d, e)>>)>>

RawBlocks(d) ==
  <<MkBlock(Tag("RUNH"), <<1>>)>>
    \o Concat([e \in 1..d.n |-> EventBlocks(d, e)])
    \o <<MkBlock(Tag("RUNE"), <<1>>)>>

\* sub-blocks filled with zero blocks up to a whole sector of K
Filled(raw, K) == raw \o [i \in 1..((K - (Len(raw) % K)) % K) |-> ZeroBlock]

\* the sub-blocks of the well-formed file
FileBlocks(d) == Filled(RawBlocks(d), kSubBlocksPerBlock(d.th))

PadWords(v, pad) == IF pad = 1 THEN <<W(v)>> ELSE <<W(v), W(0)>>

\* sizeof(DiskBlock) in units
SizeofDiskBlock(th, pad) == 2 * pad + 2 * kSubBlocksPerBlock(th)

BlockUnits(block) == <<W(block.tag), Body(block.body)>>

\* sector s (from 0) of the file with sub-blocks blocks
SectorUnits(d, blocks, s) ==
  PadWords(kBytesPerBlock(d.th), d.pad)
    \o Concat([j \in 1..kSubBlocksPerBlock(d.th) |->
                BlockUnits(blocks[s * kSubBlocksPerBlock(d.th) + j])])
    \o PadWords(kBytesPerBlock(d.th), d.pad)

UnitsOf(d, blocks) ==
  Concat([s \in 1..(Len(blocks) \div kSubBlocksPerBlock(d.th)) |->
            SectorUnits(d, blocks, s - 1)])

WellFormedUnits(d) == UnitsOf(d, FileBlocks(d))

\* offsets (from 1) of padding word j (from 0) of sector s (from 0)
PadStartAt(d, s, j) == s * SizeofDiskBlock(d.th, d.pad) + 1 + j
PadEndAt(d, s, j) ==
  s * SizeofDiskBlock(d.th, d.pad) + d.pad + 2 * kSubBlocksPerBlock(d.th) + 1 + j

\* a word that is no padding of any shape, and one that replaces both
\* paddings of a sector consistently
BadWord == BytesPerSubBlock("Thinned") + 1
OtherWord == BytesPerSubBlock("Thinned") + 2

Damage1(d, code, a, b, u) ==
  CASE code = "pe" -> [u EXCEPT ![PadEndAt(d, a, b)] = W(BadWord)]
    [] code = "ps" -> [u EXCEPT ![PadStartAt(d, a, b)] = W(BadWord)]
    [] code = "eq" -> [u EXCEPT ![PadStartAt(d, a, 0)] = W(OtherWord),
                                ![PadEndAt(d, a, 0)] = W(OtherWord)]
    [] code = "cut" ->
         SubSeq(u, 1, Min(Len(u), a * SizeofDiskBlock(d.th, d.pad) + b))
    [] code = "len" -> [u EXCEPT ![1] = W(a), ![2] = W(b)]

\* the damages of a file, applied in order
RECURSIVE Damaged(_, _, _)
Damaged(d, dmgs, u) ==
  IF dmgs = <<>> THEN u
  ELSE Damaged(d, Tail(dmgs),
               Damage1(d, Head(dmgs)[1], Head(dmgs)[2], Head(dmgs)[3], u))

BuildFile(d) == Damaged(d, d.dmg, WellFormedUnits(d))

(***************************************************************************)
(* The files of the model.                                                 *)
(***************************************************************************)
NoDamage == <<>>

\* the words tried as the two halves of the first 8 bytes
ProbeWords ==
  {0, kBytesPerBlock("Thinned"), kBytesPerBlock("NotThinned"), BadWord,
   Tag("RUNH")}

\* damages of the framing: a padding word of sector 0 or 1 changed, a
\* sector with consistent but foreign paddings, a file cut after a sectors
\* and b units, a padding of sector 1 changed in a file cut in sector 2
Damages(pad) ==
  {NoDamage, <<<<"eq", 1, 0>>>>, <<<<"cut", 0, 2>>>>, <<<<"cut", 1, 1>>>>,
   <<<<"cut", 1, pad + 2>>>>, <<<<"ps", 1, 0>>, <<"cut", 2, 1>>>>}
    \cup {<<<<c, s, j>>>> : c \in {"pe", "ps"}, s \in {0, 1}, j \in 0..(pad - 1)}

\* the four shapes: thinning and 32-bit words per padding
Shapes == {"Thinned", "NotThinned"} \X {1, 2}

\* particle sub-blocks of the event of a stream file: the file spans at
\* least three sectors
StreamParticleBlocks(th) ==
  IF th = "Thinned" THEN 1 ELSE 3 * kSubBlocksPerBlock(th) - 7

\* the files the framed stream is exercised on: one event with a chain of
\* longitudinal sub-blocks
StreamFilesOf(th, pad) ==
  {FileName(th, pad, 1, StreamParticleBlocks(th), "all", "asc", dmg, sk, -1) :
     dmg \in Damages(pad), sk \in BOOLEAN}

StreamFiles ==
  UNION {StreamFilesOf(sh[1], sh[2]) : sh \in Shapes}
    \cup {FileName("Thinned", 1, 1, 1, "all", "asc", <<<<"len", lo, hi>>>>, TRUE, -1) :
            lo \in ProbeWords, hi \in ProbeWords}

\* the files the particle iterator is exercised on: whole ones with and
\* without a chain of longitudinal sub-blocks, ones cut after two sectors,
\* and ones with the trailing padding of sector 1 changed
IterFiles ==
  {FileName(sh[1], sh[2], 1, StreamParticleBlocks(sh[1]), long, "asc", dmg, sk, -1) :
     sh \in Shapes, long \in {"all", "none"},
     dmg \in {NoDamage, <<<<"cut", 2, 0>>>>, <<<<"pe", 1, 0>>>>},
     sk \in BOOLEAN}

\* the files the shower facade is exercised on: 64-bit thinned files on a
\* source that seeks, with event numbers running down, without events or
\* with MaxEvents events and their longitudinal chains absent, present,
\* present in the first event only, or present with a zero depth before
\* their last entry; a 32-bit unthinned file on a source
\* that cannot seek; two files with a .long companion, one holding a
\* profile less than the file has events and one holding a profile for
\* each event
ReaderFiles ==
  {FileName("Thinned", 2, 0, 1, "none", "desc", NoDamage, TRUE, -1)}
    \cup {FileName("Thinned", 2, MaxEvents, 1, long, "desc", NoDamage, TRUE, -1) :
            long \in {"none", "all", "first", "gap"}}
    \cup {FileName("NotThinned", 1, MaxEvents, 1, "all", "asc", NoDamage, FALSE, -1)}
    \cup {FileName("Thinned", 2, MaxEvents, 1, "none", "asc", NoDamage, TRUE,
                    MaxEvents - 1),
          FileName("Thinned", 2, MaxEvents, 1, "none", "desc", NoDamage, TRUE,
                    MaxEvents)}

\* a valid file: the framing is whole and the longitudinal chains are there
\* for every event or for none
ValidFile(d) == d.dmg = NoDamage /\ (d.long # "first" \/ d.n <= 1)

AllFiles == StreamFiles \cup IterFiles \cup ReaderFiles

\* the content of every file
FileUnits == [d \in AllFiles |-> BuildFile(d)]

(***************************************************************************)
(* FileStream: the byte source (spec section 4.A).  A stream s carries its *)
(* source: the content s.units, the offset s.fpos and s.seekable.          *)
(***************************************************************************)
\* FileStream::open
FileOpen(name) == FileUnits[name]

\* what read(n, ...) returns: the units delivered, 0 at the end of the file
ReadCount(s, n) ==
  IF Len(s.units) <= s.fpos THEN 0 ELSE Min(n, Len(s.units) - s.fpos)

\* read(n, buffer + at - 1) delivering got units into the buffer cells at,
\* at+1, ...  A buffer cell holds the file offset its content was read
\* from, 0 while it is uninitialised.
ReadInto(s, at, got) ==
  [s EXCEPT !.fpos = s.fpos + got,
            !.buffer = [i \in 1..Len(s.buffer) |->
                          IF at <= i /\ i < at + got
                          THEN s.fpos + (i - at) + 1
                          ELSE s.buffer[i]]]

\* FileStream::seek
FileSeek(s, off) == [s EXCEPT !.fpos = off]

(***************************************************************************)
(* RawStream<Thinning, Padding>.  An operation yields [s, ok, exc, block]: *)
(* the stream afterwards, the value returned, the exception thrown ("" for *)
(* none) and the sub-block handed out.                                     *)
(***************************************************************************)
Null == <<>>
Ptr(s) == <<s>>

PaddingMismatch == "Padding mismatch"
UnknownShape == "Can't determine type of corsika file"
\* the outcome of a loop that never ends
Diverges == "diverges"

Result(s, ok, exc, block) == [s |-> s, ok |-> ok, exc |-> exc, block |-> block]
Returns(s, ok) == Result(s, ok, "", NoBlock)
Throws(s, exc) == Result(s, FALSE, exc, NoBlock)

kBlocksInDiskBlock(s) == kSubBlocksPerBlock(s.thinning)

SizeofBuffer(s) == SizeofDiskBlock(s.thinning, s.padding)

\* the content of buffer cell i
BufUnit(s, i) == IF s.buffer[i] = 0 THEN W(s.uninit) ELSE s.units[s.buffer[i]]

padding_start(s, i) == BufUnit(s, 1 + i).w
padding_end(s, i) == BufUnit(s, s.padding + 2 * kBlocksInDiskBlock(s) + 1 + i).w

\* buffer.fBlock[j]
fBlock(s, j) ==
  MkBlock(BufUnit(s, s.padding + 2 * j + 1).w, BufUnit(s, s.padding + 2 * j + 2).b)

\* DiskBlock::check_padding: TRUE when it returns, FALSE when it throws
check_padding(s) ==
  \A i \in 0..(s.padding - 1) : padding_start(s, i) = padding_end(s, i)

\* the constructor's initialiser list and the copy of len64 into the buffer
NewStream(name, th, pad, uninit) ==
  [filename |-> name, units |-> FileOpen(name), seekable |-> name.seekable,
   fpos |-> 2, thinning |-> th, padding |-> pad,
   current_block |-> 0, current_disk_block |-> 0,
   buffer_valid |-> FALSE, uninit |-> uninit,
   buffer |-> [i \in 1..SizeofDiskBlock(th, pad) |-> IF i <= 2 THEN i ELSE 0]]

\* the constructor's body, the read having delivered got units
CtorRead(s, got) ==
  IF got > 0
  THEN IF check_padding(ReadInto(s, 3, got))
       THEN Returns([ReadInto(s, 3, got) EXCEPT !.buffer_valid = TRUE], TRUE)
       ELSE Throws([ReadInto(s, 3, got) EXCEPT !.buffer_valid = TRUE], PaddingMismatch)
  ELSE Returns(s, TRUE)

\* RawStream::RawStream: the stream after the constructor, or its exception
RawStreamCtor(s) == CtorRead(s, ReadCount(s, SizeofBuffer(s) - 2))

\* A 64-bit integer is kept as its two little-endian 32-bit halves <<lo, hi>>.
\* len64 == c, for a constant 0 <= c < 2^31
Equals64(len64, c) == len64[1] = c /\ len64[2] = 0

\* *reinterpret_cast<int32_t*>(&len64): the low 4 bytes
Low32(len64) == len64[1]

\* a detection that tries the 32-bit matches before the 64-bit ones
DetectShape32First(len64) ==
  IF Low32(len64) = kBytesPerBlock("Thinned") THEN <<"Thinned", 1>>
  ELSE IF Low32(len64) = kBytesPerBlock("NotThinned") THEN <<"NotThinned", 1>>
  ELSE IF Equals64(len64, kBytesPerBlock("Thinned")) THEN <<"Thinned", 2>>
  ELSE IF Equals64(len64, kBytesPerBlock("NotThinned")) THEN <<"NotThinned", 2>>
  ELSE <<>>

\* the shape VRawStream::Create picks for the first 8 bytes, <<>> for none
DetectShape(len64) ==
  IF Equals64(len64, kBytesPerBlock("Thinned")) THEN <<"Thinned", 2>>
  ELSE IF Equals64(len64, kBytesPerBlock("NotThinned")) THEN <<"NotThinned", 2>>
  ELSE IF Low32(len64) = kBytesPerBlock("Thinned") THEN <<"Thinned", 1>>
  ELSE IF Low32(len64) = kBytesPerBlock("NotThinned") THEN <<"NotThinned", 1>>
  ELSE <<>>

\* file->read(8, &len64): the first 8 bytes of the file
Len64(units) == <<units[1].w, units[2].w>>

CreateShape(name, uninit, shape) ==
  IF shape = <<>> THEN Throws(Null, UnknownShape)
  ELSE RawStreamCtor(NewStream(name, shape[1], shape[2], uninit))

\* VRawStream::Create
Create(name, uninit) == CreateShape(name, uninit, DetectShape(Len64(FileOpen(name))))

\* ReadDiskBlock, the read having delivered got units
DiskBlockRead(s, got) ==
  IF got <= 0 THEN Returns(s, FALSE)
  ELSE IF ~check_padding(ReadInto(s, 1, got))
  THEN Throws(ReadInto(s, 1, got), PaddingMismatch)
  ELSE Returns([ReadInto(s, 1, got) EXCEPT !.buffer_valid = TRUE], TRUE)

\* RawStream::ReadDiskBlock
ReadDiskBlock(s) == DiskBlockRead(s, ReadCount(s, SizeofBuffer(s)))

\* lines 96-103: hand out fBlock[current_disk_block] and advance
HandOut(s) ==
  Result(IF s.current_disk_block + 1 >= kBlocksInDiskBlock(s)
         THEN [s EXCEPT !.current_block = @ + 1,
                        !.current_disk_block = 0,
                        !.buffer_valid = FALSE]
         ELSE [s EXCEPT !.current_disk_block = @ + 1],
         TRUE, "", fBlock(s, s.current_disk_block))

HandOutIfRead(r) == IF r.ok THEN HandOut(r.s) ELSE r

\* RawStream::GetNextBlockImpl
GetNextBlockImpl(s) ==
  IF s.buffer_valid THEN HandOut(s) ELSE HandOutIfRead(ReadDiskBlock(s))

\* RawStream::GetNextBlock(Block<th>&): NextBlockDispatch
GetNextBlock(s, th) ==
  IF th = s.thinning THEN GetNextBlockImpl(s) ELSE Returns(s, FALSE)

\* RawStream::GetNextPosition
GetNextPosition(s) == s.current_disk_block + kBlocksInDiskBlock(s) * s.current_block

\* RawStream::IsSeekable
IsSeekable(s) == TRUE

\* RawStream::IsThinned
IsThinned(s) == kBytesPerBlock(s.thinning) = kBytesPerBlock("Thinned")

\* the loop of SeekTo on a source that cannot seek: it never ends when a
\* read fails, for nothing then changes from one iteration to the next
RECURSIVE DumbSeekLoop(_, _)
RECURSIVE DumbSeekStep(_, _)
DumbSeekStep(r, thePosition) ==
  IF r.exc # "" THEN r
  ELSE IF ~r.ok THEN Throws(r.s, Diverges)
  ELSE DumbSeekLoop(r.s, thePosition)

DumbSeekLoop(s, thePosition) ==
  IF thePosition > 0 /\ thePosition > GetNextPosition(s)
  THEN DumbSeekStep(GetNextBlock(s, s.thinning), thePosition)
  ELSE Returns(s, TRUE)

\* lines 131-135: the source opened again
Reopened(s) ==
  [s EXCEPT !.units = FileOpen(s.filename), !.fpos = 0, !.current_block = 0,
            !.current_disk_block = 0, !.buffer_valid = FALSE]

\* RawStream::SeekTo
SeekTo(s, thePosition) ==
  IF s.seekable
  THEN Returns(FileSeek([s EXCEPT !.current_block = thePosition \div kBlocksInDiskBlock(s),
                                  !.buffer_valid = FALSE,
                                  !.current_disk_block = thePosition % kBlocksInDiskBlock(s)],
                        (thePosition \div kBlocksInDiskBlock(s)) * SizeofBuffer(s)),
               TRUE)
  ELSE IF GetNextPosition(s) > thePosition
  THEN DumbSeekLoop(Reopened(s), thePosition)
  ELSE DumbSeekLoop(s, thePosition)

\* checks that require the size of one sub-block of the leading padding word
IsValidFailSubBlockSize(s, r) ==
  \/ ~r.ok
  \/ ~IsRunHeader(IF r.ok THEN r.block ELSE MkBlock(s.uninit, <<>>))
  \/ padding_start(r.s, 0) # BytesPerSubBlock(s.thinning)
  \/ padding_start(r.s, 0) # padding_end(r.s, 0)

\* the checks of IsValid on the block it read (r) into an uninitialised block
IsValidFail(s, r) ==
  \/ ~r.ok
  \/ ~IsRunHeader(IF r.ok THEN r.block ELSE MkBlock(s.uninit, <<>>))
  \/ padding_start(r.s, 0) #
       kSubBlocksPerBlock(s.thinning) * BytesPerSubBlock(s.thinning)
  \/ padding_start(r.s, 0) # padding_end(r.s, 0)

IsValidRead(s, r) ==
  IF r.exc # "" THEN r
  ELSE Returns(SeekTo([r.s EXCEPT !.buffer_valid = s.buffer_valid],
                      GetNextPosition(s)).s,
               ~IsValidFail(s, r))

\* RawStream::IsValid
IsValid(s) ==
  IF ~s.seekable THEN Returns(s, TRUE)
  ELSE IsValidRead(s, GetNextBlock(SeekTo(s, 0).s, s.thinning))

(***************************************************************************)
(* The state.                                                              *)
(***************************************************************************)
VARIABLES
  fRawStream,        \* the framed stream: Null or Ptr(stream)
  iter,              \* the particle iterator: Null or Ptr(iterator)
  fCurrentPosition,  \* CorsikaShowerFile: slot of the next event
  fObservationLevel, \* requested observation level
  fIsThinned,
  fFileScanned,
  fIndex,            \* eventHeaders, eventTrailers, longBlocks, IDToPosition
  fLongFile,         \* Null or Ptr(name of the file whose .long exists)
  fCorsikaLongFile,  \* Null or Ptr(name of the file whose .long is loaded)
  fCurrentShower,    \* Null or Ptr(shower)
  last,              \* what the last operation was and what it returned
  calls,             \* operations on the stream since it was created (0, 1, many)
  rejected,          \* file offsets of the sub-blocks of sectors that failed
                     \* the padding check
  history            \* what is remembered of the calls on the reader

vars ==
  <<fRawStream, iter, fCurrentPosition, fObservationLevel, fIsThinned,
    fFileScanned, fIndex, fLongFile, fCorsikaLongFile, fCurrentShower, last,
    calls, rejected, history>>

readerVars ==
  <<fCurrentPosition, fObservationLevel, fIsThinned, fFileScanned, fIndex,
    fLongFile, fCorsikaLongFile, fCurrentShower>>

EmptyIndex ==
  [eventHeaders |-> <<>>, eventTrailers |-> <<>>, longBlocks |-> <<>>,
   IDToPosition |-> <<>>]

\* the record of an operation: its name and argument, the value returned,
\* the exception thrown, the block handed out and the file offset of the
\* buffer cell that block was taken from
Did(op, arg, r, src) ==
  [op |-> op, arg |-> arg, ok |-> r.ok, exc |-> r.exc, block |-> r.block,
   src |-> src]

\* what is remembered of the calls on the reader: the number of Open calls
\* (0, 1, many), whether the last Open was asked to scan, whether only Read
\* was called since, the number of those Read calls, whether the file now
\* open has been scanned, the slot the last call found when it was a
\* successful FindEvent (-1 otherwise), and the same of the call before it
NoHistory ==
  [opens |-> 0, scan |-> FALSE, onlyReads |-> FALSE, reads |-> 0,
   scanDone |-> FALSE, after |-> -1, before |-> -1]

\* CorsikaShowerFile::CorsikaShowerFile(): the reader before any Open
InitReader ==
  /\ fCurrentPosition = 0
  /\ fObservationLevel = 1
  /\ fIsThinned = TRUE
  /\ fFileScanned = FALSE
  /\ fIndex = EmptyIndex
  /\ fLongFile = Null
  /\ fCorsikaLongFile = Null
  /\ fCurrentShower = Null

Init ==
  /\ fRawStream = Null
  /\ iter = Null
  /\ InitReader
  /\ last = Did("init", 0, Returns(Null, TRUE), 0)
  /\ calls = 0
  /\ rejected = {}
  /\ history = NoHistory

(***************************************************************************)
(* The framed stream on its own: a client that creates a stream on a file  *)
(* and then calls GetNextBlock, SeekTo and IsValid in any order, also      *)
(* after an exception.                                                     *)
(***************************************************************************)
\* what the uninitialised part of a new buffer may hold
UninitWords(name) == {0, kBytesPerBlock(name.th)}

\* logical blocks of the whole sectors of a file
NumBlocks(s) == (Len(s.units) \div SizeofBuffer(s)) * kBlocksInDiskBlock(s)

\* the seek targets tried: every block of the file and some past its end
SeekTargets(s) == 0..(NumBlocks(s) + SeekPastEnd)

\* the largest seek target tried on any file
MaxSeekTo == 3 * kSubBlocksPerBlock("NotThinned") + 7 + SeekPastEnd

Stream == fRawStream[1]

StreamUsable == fRawStream # Null /\ last.exc # Diverges

\* the file offset of the buffer cell holding the first word of fBlock[j]
BlockSource(s, j) == s.buffer[s.padding + 2 * j + 1]

\* the sub-blocks of the sector in the buffer of s: those read along with
\* its first cell
SectorBlocks(s) ==
  {BlockSource(s, j) : j \in {i \in 0..(kBlocksInDiskBlock(s) - 1) :
      BlockSource(s, i) - (s.padding + 2 * i + 1) = s.buffer[1] - 1}}

\* the bookkeeping of an operation on the stream that returned r
Called(r) ==
  /\ calls' = Min(calls + 1, 2)
  /\ rejected' = IF r.exc = PaddingMismatch
                 THEN rejected \cup SectorBlocks(r.s) ELSE rejected
  /\ UNCHANGED <<iter, readerVars, history>>

Created(name, r) ==
  /\ fRawStream' = IF r.exc = "" THEN Ptr(r.s) ELSE Null
  /\ last' = Did("Create", name, r, 0)
  /\ UNCHANGED <<calls, rejected, iter, readerVars, history>>

StreamCreate(name, uninit) ==
  /\ fRawStream = Null
  /\ last.op = "init"
  /\ Created(name, Create(name, uninit))

GotNextBlock(r) ==
  /\ fRawStream' = Ptr(r.s)
  /\ last' = Did("GetNextBlock", 0, r,
                 IF r.ok THEN BlockSource(r.s, Stream.current_disk_block) ELSE 0)
  /\ Called(r)

StreamGetNextBlock ==
  /\ StreamUsable
  /\ GotNextBlock(GetNextBlock(Stream, Stream.thinning))

Sought(thePosition, r) ==
  /\ fRawStream' = Ptr(r.s)
  /\ last' = Did("SeekTo", thePosition, r, 0)
  /\ Called(r)

StreamSeekTo(thePosition) ==
  /\ StreamUsable
  /\ thePosition \in SeekTargets(Stream)
  /\ Sought(thePosition, SeekTo(Stream, thePosition))

Validated(r) ==
  /\ fRawStream' = Ptr(r.s)
  /\ last' = Did("IsValid", 0, r, 0)
  /\ Called(r)

StreamIsValid ==
  /\ StreamUsable
  /\ Validated(IsValid(Stream))

NextStream ==
  \/ \E name \in StreamFiles : \E uninit \in UninitWords(name) :
       StreamCreate(name, uninit)
  \/ StreamGetNextBlock
  \/ \E p \in 0..MaxSeekTo : StreamSeekTo(p)
  \/ StreamIsValid

SpecStream == Init /\ [][NextStream]_vars

(***************************************************************************)
(* Properties of the framed stream.                                        *)
(***************************************************************************)
\* two calls of GetNextBlock that cannot be told apart
SameNext(d, v) ==
  /\ d.ok = v.ok
  /\ d.exc = v.exc
  /\ d.block = v.block
  /\ GetNextPosition(d.s) = GetNextPosition(v.s)

\* C6: in every reachable state of the stream, SeekTo(GetNextPosition())
\* followed by GetNextBlock yields the same block as GetNextBlock called
\* directly, and leaves GetNextPosition() with the same value.
C6_SeekToTellIsNoOp ==
  StreamUsable =>
    SameNext(GetNextBlock(Stream, Stream.thinning),
             GetNextBlock(SeekTo(Stream, GetNextPosition(Stream)).s,
                          Stream.thinning))

\* C7: a sector whose paddings differ makes the read throw, buffer_valid
\* is not set, and no sub-block of that sector is ever handed out.
C7_RejectedSectorNeverReturned ==
  /\ (fRawStream # Null /\ last.exc = PaddingMismatch) => ~Stream.buffer_valid
  /\ (last.op = "GetNextBlock" /\ last.ok) => last.src \notin rejected

\* the 64-bit value K x bytes_per_sub_block as padding words
ExpectedPadding(s, i) == IF i = 0 THEN kBytesPerBlock(s.thinning) ELSE 0

\* C8: every sector a sub-block is handed out from has
\* padding_start = padding_end = K x bytes_per_sub_block.
C8_AcceptedSectorPadding ==
  (last.op = "GetNextBlock" /\ last.ok) =>
    \A i \in 0..(Stream.padding - 1) :
      /\ padding_start(Stream, i) = ExpectedPadding(Stream, i)
      /\ padding_end(Stream, i) = ExpectedPadding(Stream, i)

\* the shape the specified resolution order gives for the first 8 bytes
ShapeByOrder(lo, hi) ==
  IF lo = kBytesPerBlock("Thinned") /\ hi = 0 THEN <<"Thinned", 2>>
  ELSE IF lo = kBytesPerBlock("NotThinned") /\ hi = 0 THEN <<"NotThinned", 2>>
  ELSE IF lo = kBytesPerBlock("Thinned") THEN <<"Thinned", 1>>
  ELSE IF lo = kBytesPerBlock("NotThinned") THEN <<"NotThinned", 1>>
  ELSE <<>>

CreatedAsOrdered(name, shape) ==
  /\ (last.exc = UnknownShape) = (shape = <<>>)
  /\ fRawStream # Null => shape = <<Stream.thinning, Stream.padding>>
  /\ name.dmg = NoDamage =>
       /\ fRawStream # Null
       /\ <<Stream.thinning, Stream.padding>> = <<name.th, name.pad>>
       /\ Stream.buffer_valid
       /\ Stream.buffer[1] = 1 /\ Stream.buffer[2] = 2

FirstBlockIsBlockZero ==
  /\ last.ok
  /\ last.src = Stream.padding + 1
  /\ last.block = fBlock([Stream EXCEPT !.buffer =
                            [i \in 1..SizeofBuffer(Stream) |-> i]], 0)

\* C9: Create picks the first match in the order len64 = Thinned,
\* len64 = NotThinned, len32 = Thinned, len32 = NotThinned and throws when
\* none matches; the 8 bytes read are the prefix of sector 0, so the first
\* GetNextBlock hands out sub-block 0 of sector 0.
C9_ShapeDetection ==
  /\ last.op = "Create" =>
       CreatedAsOrdered(last.arg, ShapeByOrder(FileUnits[last.arg][1].w,
                                               FileUnits[last.arg][2].w))
  /\ (last.op = "GetNextBlock" /\ calls = 1
        /\ Len(Stream.units) >= SizeofBuffer(Stream)) => FirstBlockIsBlockZero

\* C9 happens: the first GetNextBlock on a stream detected as 64-bit handed
\* out the run header from behind the two padding words
C9_Witness ==
  /\ last.op = "GetNextBlock" /\ calls = 1
  /\ Stream.padding = 2 /\ Stream.thinning = "NotThinned"
  /\ last.ok /\ last.src = 3 /\ IsRunHeader(last.block)

\* C13: on a source that cannot seek, SeekTo(thePosition) returns for every
\* thePosition, and on return GetNextPosition() = thePosition, also when
\* thePosition lies beyond the last block of the file.
C13_DumbSeekTerminates ==
  (last.op = "SeekTo" /\ fRawStream # Null /\ ~Stream.seekable
     /\ Stream.filename.dmg = NoDamage) =>
    (last.exc = "" /\ GetNextPosition(Stream) = last.arg)

\* the buffer of s holds one sector of the file from its first word to its
\* last
WholeSector(s) ==
  /\ s.buffer[1] > 0
  /\ \A i \in 1..SizeofBuffer(s) : s.buffer[i] = s.buffer[1] + i - 1

\* C14: a read that delivers a part of a sector never sets buffer_valid,
\* and no sub-block is handed out from a sector that was read in part.
C14_ShortReadIsFatal ==
  /\ (fRawStream # Null /\ Stream.buffer_valid) => WholeSector(Stream)
  /\ (last.op = "GetNextBlock" /\ last.ok) => WholeSector(Stream)

\* the first 4 bytes of the file name are the unthinned sector length
S2FirstWord(name) == FileUnits[name][1].w = kBytesPerBlock("NotThinned")

\* the stream was created as 32-bit unthinned
IsNotThinned32(s) == s.thinning = "NotThinned" /\ s.padding = 1

\* Create on a file of scenario S2 finds a shape, and it is the 32-bit
\* unthinned one
S2Created ==
  /\ last.exc # UnknownShape
  /\ fRawStream # Null => IsNotThinned32(Stream)

\* the file of s is one of scenario S2 whose sector 0 is whole, with equal
\* paddings and a run header as its first sub-block
S2Sound(s) ==
  /\ IsNotThinned32(s)
  /\ Len(s.units) >= SizeofBuffer(s)
  /\ s.units[1].w = kBytesPerBlock("NotThinned")
  /\ s.units[SizeofBuffer(s)].w = s.units[1].w
  /\ s.units[2].w = Tag("RUNH")

\* IsValid returned true, and the size it requires of the leading padding
\* word (line 200) is the value the shape was detected by
S2Valid ==
  /\ last.ok /\ last.exc = ""
  /\ kSubBlocksPerBlock(Stream.thinning) * BytesPerSubBlock(Stream.thinning)
       = Stream.units[1].w

BlockIndex(s, src) ==
  ((src - 1) \div SizeofBuffer(s)) * kBlocksInDiskBlock(s)
    + (((src - 1) % SizeofBuffer(s)) - s.padding) \div 2

\* GetNextBlock in state s, with result r, kept the account: handing out a
\* block it handed out the one GetNextPosition() named and moved on by one,
\* returning the end it left GetNextPosition() as it was
NextAccounted(s, r) ==
  /\ r.ok =>
       /\ BlockIndex(s, BlockSource(r.s, s.current_disk_block)) = GetNextPosition(s)
       /\ GetNextPosition(r.s) = GetNextPosition(s) + 1
  /\ (~r.ok /\ r.exc = "") => GetNextPosition(r.s) = GetNextPosition(s)

\* SeekTo(p) with result r ended at p with the buffer invalid
SoughtTo(r, p) ==
  r.exc = "" /\ GetNextPosition(r.s) = p /\ ~r.s.buffer_valid

\* C23: in every reachable state of the stream the sub-block index is below
\* K and GetNextPosition() is the logical index of the block the next
\* GetNextBlock hands out; a GetNextBlock that hands out a block raises
\* GetNextPosition() by one, one that returns the end leaves it; SeekTo(p)
\* on a source that seeks ends with GetNextPosition() = p and the buffer
\* invalid.
C23_PositionAccounting ==
  StreamUsable =>
    /\ Stream.current_disk_block < kBlocksInDiskBlock(Stream)
    /\ NextAccounted(Stream, GetNextBlock(Stream, Stream.thinning))
    /\ Stream.seekable =>
         \A p \in SeekTargets(Stream) : SoughtTo(SeekTo(Stream, p), p)

(***************************************************************************)
(* RawParticleIterator<Thinning>.  An iterator it holds start,             *)
(* current_particle, valid and block; the stream it reads is shared.  An   *)
(* operation yields [it, s, some, particle, exc, read]: the iterator and   *)
(* the stream afterwards, whether a particle is returned (a pointer that   *)
(* is not null) and its id, the exception thrown, and the block the call   *)
(* read from the stream (NoBlock when it read none).                       *)
(***************************************************************************)
NotValid == "RawParticleIterator not valid."
ReadError == "Error reading block in CORSIKA file."

IterResult(it, s, some, particle, exc, read) ==
  [it |-> it, s |-> s, some |-> some, particle |-> particle, exc |-> exc,
   read |-> read]

\* Rewind, the SeekTo having returned r
Rewound(it, r) ==
  IterResult([it EXCEPT !.current_particle = kParticlesInBlock, !.valid = TRUE],
             r.s, FALSE, 0, r.exc, NoBlock)

\* RawParticleIterator::Rewind
Rewind(it, s) == Rewound(it, SeekTo(s, it.start))

\* RawParticleIterator::RawParticleIterator
RawParticleIteratorCtor(s, th, start) ==
  Rewind([start |-> IF start = 0 THEN GetNextPosition(s) ELSE start,
          current_particle |-> 0, valid |-> FALSE, block |-> NoBlock,
          thinning |-> th], s)

\* VRawParticleIterator::Create
CreateIterator(s, start) ==
  RawParticleIteratorCtor(s, IF IsThinned(s) THEN "Thinned" ELSE "NotThinned", start)

\* line 54: the block ends the particle records
EndOfParticlesControlOnly(block) == IsControl(block)

EndOfParticles(block) == IsControl(block) \/ IsLongitudinal(block)

\* line 61: block.AsParticleBlock.fParticle + current_particle++
Emit(it, s, read) ==
  IterResult([it EXCEPT !.current_particle = @ + 1], s, TRUE,
             ParticleAt(it.block, it.current_particle), "", read)

\* lines 51-59, GetNextBlock(block) having returned r
FetchedBlock(it, r) ==
  IF r.exc # "" THEN IterResult(it, r.s, FALSE, 0, r.exc, NoBlock)
  ELSE IF ~r.ok THEN IterResult(it, r.s, FALSE, 0, ReadError, NoBlock)
  ELSE IF EndOfParticles(r.block)
  THEN IterResult([it EXCEPT !.block = r.block, !.valid = FALSE], r.s, FALSE,
                  0, "", r.block)
  ELSE Emit([it EXCEPT !.block = r.block, !.current_particle = 0], r.s, r.block)

\* RawParticleIterator::GetOneParticle
GetOneParticle(it, s) ==
  IF it.current_particle = kParticlesInBlock
  THEN IF ~it.valid THEN IterResult(it, s, FALSE, 0, NotValid, NoBlock)
       ELSE FetchedBlock(it, GetNextBlock(s, it.thinning))
  ELSE Emit(it, s, NoBlock)

\* RawParticleIterator::Next
IteratorNext(it, s) == GetOneParticle(it, s)

(***************************************************************************)
(* The particle iterator on its own: a client that creates a stream and an *)
(* iterator on it and then calls Next and Rewind in any order.             *)
(***************************************************************************)
Iterator == iter[1]

\* the record of an operation of the iterator
DidIter(op, arg, r) ==
  [op |-> op, arg |-> arg, ok |-> r.some, exc |-> r.exc, block |-> r.read,
   src |-> r.particle]

IterDone(op, arg, r) ==
  /\ fRawStream' = Ptr(r.s)
  /\ last' = DidIter(op, arg, r)
  /\ UNCHANGED <<calls, rejected, readerVars, history>>

IterCreated(start, r) ==
  /\ iter' = IF r.exc = "" THEN Ptr(r.it) ELSE Null
  /\ IterDone("CreateIterator", start, r)

IterCreate(start) ==
  /\ fRawStream # Null /\ iter = Null /\ last.op = "Create"
  /\ start \in 0..NumBlocks(Stream)
  /\ IterCreated(start, CreateIterator(Stream, start))

IterUsable == iter # Null /\ last.exc # Diverges

IterStepped(op, r) ==
  /\ iter' = Ptr(r.it)
  /\ IterDone(op, 0, r)

IterNext ==
  /\ IterUsable
  /\ IterStepped("Next", IteratorNext(Iterator, Stream))

IterRewind ==
  /\ IterUsable
  /\ IterStepped("Rewind", Rewind(Iterator, Stream))

NextIter ==
  \/ \E name \in IterFiles : StreamCreate(name, 0)
  \/ \E start \in 0..MaxSeekTo : IterCreate(start)
  \/ IterNext
  \/ IterRewind

SpecIter == Init /\ [][NextIter]_vars

(***************************************************************************)
(* Properties of the particle iterator.                                    *)
(***************************************************************************)
\* a step of Next on an iterator that has terminated throws and reads nothing
ExhaustedThrows ==
  ~Iterator.valid =>
    /\ last'.exc = NotValid
    /\ ~last'.ok
    /\ fRawStream' = fRawStream
    /\ iter' = iter

\* a step of Next that reads a control or longitudinal block returns the
\* end and terminates the iterator; a particle only ever comes from a block
\* that is neither
EndBlockTerminates ==
  /\ (last'.block # NoBlock
        /\ (IsControl(last'.block) \/ IsLongitudinal(last'.block))) =>
       (~last'.ok /\ last'.exc = "" /\ ~iter'[1].valid)
  /\ last'.ok =>
       (iter'[1].valid /\ ~IsControl(iter'[1].block)
          /\ ~IsLongitudinal(iter'[1].block))

\* C10: the Next that reads the first control or longitudinal block after
\* start returns the end and emits no particle from it; every later Next
\* without a Rewind throws without reading a block from the stream.
C10_TerminationAbsorbing ==
  [][(last'.op = "Next" /\ iter # Null) => (ExhaustedThrows /\ EndBlockTerminates)]_vars

\* C10 happens: a Next on a terminated iterator threw, the block that
\* terminated it being a longitudinal one
C10_Witness ==
  /\ last.op = "Next" /\ last.exc = NotValid
  /\ iter # Null /\ ~Iterator.valid /\ IsLongitudinal(Iterator.block)

\* C11: every particle Next returns before termination has a particle id
\* that is not zero.
C11_NoZeroIdEmitted ==
  (last.op = "Next" /\ last.ok) => last.src # 0

\* calls of Next a traversal is followed for: enough to pass the particle
\* blocks of an event and its end
TraverseLen == kParticlesInBlock * StreamParticleBlocks("NotThinned") + 2

\* what the next n calls of Next return: for each whether a particle, its
\* id, and the exception thrown
RECURSIVE Traverse(_, _, _)
RECURSIVE TraverseStep(_, _)
TraverseStep(r, n) ==
  <<<<r.some, r.particle, r.exc>>>> \o Traverse(r.it, r.s, n - 1)

Traverse(it, s, n) ==
  IF n = 0 THEN <<>> ELSE TraverseStep(IteratorNext(it, s), n)

\* the traversal of the iterator r.it on the stream r.s
TraverseOf(r) == Traverse(r.it, r.s, TraverseLen)

\* an iterator newly constructed at start on a newly created stream on name
FreshIterator(name, start) == CreateIterator(Create(name, 0).s, start)

\* C19: after Rewind, from whatever state of the iterator, the stream
\* stands at start, valid is set, and the calls of Next that follow return
\* what they return on a newly constructed iterator with the same start.
C19_RewindRestarts ==
  (last.op = "Rewind" /\ iter # Null /\ last.exc = "") =>
    /\ GetNextPosition(Stream) = Iterator.start
    /\ Iterator.valid
    /\ Traverse(Iterator, Stream, TraverseLen) =
         TraverseOf(FreshIterator(Stream.filename, Iterator.start))

(***************************************************************************)
(* The index scanner (spec section 4.E).  Positions and slots count from   *)
(* 0; a position array is a sequence, so slot i is its element i + 1.      *)
(***************************************************************************)
\* the map m with key k bound to v
Put(m, k, v) == [x \in (DOMAIN m) \cup {k} |-> IF x = k THEN v ELSE m[x]]

\* the index with the block read at position pos entered; prevLong tells
\* whether the block before it was a longitudinal one
Indexed(index, block, pos, prevLong) ==
  IF IsEventHeader(block)
  THEN [index EXCEPT !.eventHeaders = Append(@, pos),
                     !.IDToPosition = Put(@, Field(block, 1),
                                          Len(index.eventHeaders))]
  ELSE IF IsEventTrailer(block)
  THEN [index EXCEPT !.eventTrailers = Append(@, pos)]
  ELSE IF IsLongitudinal(block) /\ ~prevLong
  THEN [index EXCEPT !.longBlocks = Append(@, pos)]
  ELSE index

ScanResult(s, index, exc) == [s |-> s, index |-> index, exc |-> exc]

\* the traversal: one GetNextBlock after the other up to the end
RECURSIVE ScanLoop(_, _, _)
RECURSIVE ScanStep(_, _, _, _)
ScanStep(pos, index, prevLong, r) ==
  IF r.exc # "" \/ ~r.ok THEN ScanResult(r.s, index, r.exc)
  ELSE ScanLoop(r.s, Indexed(index, r.block, pos, prevLong),
                IsLongitudinal(r.block))

ScanLoop(s, index, prevLong) ==
  ScanStep(GetNextPosition(s), index, prevLong, GetNextBlock(s, s.thinning))

\* the position before the scan restored
ScanRestored(sc, r) == ScanResult(r.s, sc.index, r.exc)

ScanTraversed(sc, start) ==
  IF sc.exc # "" THEN sc ELSE ScanRestored(sc, SeekTo(sc.s, start))

ScanFromZero(r, start) ==
  IF r.exc # "" THEN ScanResult(r.s, EmptyIndex, r.exc)
  ELSE ScanTraversed(ScanLoop(r.s, EmptyIndex, FALSE), start)

\* VRawStream::Scan
Scan(s) == ScanFromZero(SeekTo(s, 0), GetNextPosition(s))

(***************************************************************************)
(* CorsikaShowerFile.  A reader rd is the record of the fields of the      *)
(* object and of the iterator of its current shower; an operation yields   *)
(* [rd, status, exc, value].                                               *)
(***************************************************************************)
eSuccess == "eSuccess"
eFail == "eFail"
eEOF == "eEOF"

ClosedFile == "Cannot request number of events from closed file"
NoRandomAccess == "does not support random access"

Out(rd, status, exc, value) ==
  [rd |-> rd, status |-> status, exc |-> exc, value |-> value]
Status(rd, status) == Out(rd, status, "", 0)
Raise(rd, exc) == Out(rd, "", exc, 0)

RStream(rd) == rd.fRawStream[1]
WithStream(rd, s) == [rd EXCEPT !.fRawStream = Ptr(s)]

\* v[i] of a std::vector: reading past its end is undefined, it yields the
\* arbitrary value g
At(v, i, g) == IF i < Len(v) THEN v[i + 1] ELSE g

\* CorsikaShower(header, trailer, particleIterator): the profile is empty.
\* level is the observation level the iterator was given, heightIndex the
\* index into fObservationHeight the time shift was computed with.
Shower(header, trailer, start, level, heightIndex) ==
  [header |-> header, trailer |-> trailer, start |-> start, level |-> level,
   heightIndex |-> heightIndex,
   profile |-> [source |-> "none", depth |-> <<>>, index |-> 0]]

WithProfile(rd, source, depth, index) ==
  [rd EXCEPT !.fCurrentShower =
     Ptr([rd.fCurrentShower[1] EXCEPT
            !.profile = [source |-> source, depth |-> depth, index |-> index]])]

\* CorsikaShowerFile::Close
Close(rd) == [rd EXCEPT !.fRawStream = Null, !.fIndex = EmptyIndex]

\* lines 103-111, the scan having returned sc
OpenScanned(rd, sc) ==
  IF sc.exc # "" THEN Raise(WithStream(rd, sc.s), sc.exc)
  ELSE Status([rd EXCEPT !.fRawStream = Ptr(sc.s), !.fIndex = sc.index,
                         !.fFileScanned = TRUE], eSuccess)

\* lines 101-111, Create having returned r
OpenCreated(rd, scan, r) ==
  IF r.exc # "" THEN Raise(rd, r.exc)
  ELSE IF scan /\ IsSeekable(r.s)
  THEN OpenScanned([rd EXCEPT !.fRawStream = Ptr(r.s),
                              !.fIsThinned = IsThinned(r.s)], Scan(r.s))
  ELSE IF ~IsSeekable(r.s)
  THEN Raise([rd EXCEPT !.fRawStream = Ptr(r.s), !.fIsThinned = IsThinned(r.s)],
             NoRandomAccess)
  ELSE Status([rd EXCEPT !.fRawStream = Ptr(r.s), !.fIsThinned = IsThinned(r.s)],
              eSuccess)

\* CorsikaShowerFile::Open
Open(rd, name, scan, uninit) ==
  OpenCreated([Close(rd) EXCEPT !.fLongFile = IF name.side >= 0 THEN Ptr(name)
                                              ELSE Null],
              scan, Create(name, uninit))

\* fEntries[j].fDepth of a longitudinal block
Depth(block, j) == Field(block, 2 + j)

\* the loops of lines 377-387 and 398-408 from entry j of block on; the
\* counter i of the source is the number of entries collected
RECURSIVE Entries(_, _, _)
Entries(block, j, aux) ==
  IF j = kLongEntriesPerBlock \/ (Len(aux) # 0 /\ Depth(block, j) = 0) THEN aux
  ELSE Entries(block, j + 1, Append(aux, Depth(block, j)))

\* lines 389-418: the blocks b, b+1, ... of the chain
RECURSIVE LongRest(_, _, _, _, _)
RECURSIVE LongNext(_, _, _, _, _, _)
LongNext(rd, th, b, nBlocks, aux, r) ==
  IF r.exc # "" THEN Raise(WithStream(rd, r.s), r.exc)
  ELSE IF ~r.ok THEN Status(WithStream(rd, r.s), eFail)
  ELSE LongRest(WithStream(rd, r.s), th, b + 1, nBlocks, Entries(r.block, 0, aux))

LongRest(rd, th, b, nBlocks, aux) ==
  IF b < nBlocks
  THEN LongNext(rd, th, b, nBlocks, aux, GetNextBlock(RStream(rd), th))
  ELSE Status(WithProfile(rd, "stream", aux, 0), eSuccess)

\* lines 347-387, GetNextBlock having returned r
LongFirst(rd, th, r) ==
  IF r.exc # "" THEN Raise(WithStream(rd, r.s), r.exc)
  ELSE IF ~r.ok \/ ~IsLongitudinal(r.block) THEN Status(WithStream(rd, r.s), eFail)
  ELSE LongRest(WithStream(rd, r.s), th, 1, Field(r.block, 1) % 100,
                Entries(r.block, 0, <<>>))

LongSought(rd, th, r) ==
  IF r.exc # "" THEN Raise(WithStream(rd, r.s), r.exc)
  ELSE LongFirst(rd, th, GetNextBlock(r.s, th))

\* CorsikaShowerFile::ReadLongBlocks
ReadLongBlocks(rd, th, g) ==
  LongSought(rd, th,
             SeekTo(RStream(rd), At(rd.fIndex.longBlocks, rd.fCurrentPosition, g)))

\* CorsikaLongFile::size of the side file of name
LongFileSize(name) == name.side

\* lines 309-335, fCorsikaLongFile being set
LongFileProfile(rd) ==
  IF LongFileSize(rd.fCorsikaLongFile[1]) >= rd.fCurrentPosition
  THEN Status(WithProfile(rd, "file", <<>>, rd.fCurrentPosition), eSuccess)
  ELSE Status(WithProfile(rd, "cleared", <<>>, 0), eSuccess)

\* CorsikaShowerFile::ReadLongFile
ReadLongFile(rd) ==
  LongFileProfile(IF rd.fCorsikaLongFile = Null
                  THEN [rd EXCEPT !.fCorsikaLongFile = rd.fLongFile] ELSE rd)

\* a Read that leaves the cursor where it is
ReadDoneNoAdvance(o) == IF o.exc # "" THEN o ELSE Status(o.rd, eSuccess)

\* lines 257-259
ReadDone(o) ==
  IF o.exc # "" THEN o
  ELSE Status([o.rd EXCEPT !.fCurrentPosition = @ + 1], eSuccess)

\* lines 252-259
ReadProfile(rd, th, g) ==
  IF Len(rd.fIndex.longBlocks) > 0 THEN ReadDone(ReadLongBlocks(rd, th, g))
  ELSE IF rd.fLongFile # Null THEN ReadDone(ReadLongFile(rd))
  ELSE ReadDone(Status(rd, eSuccess))

\* CorsikaShowerFileParticleIterator: the iterator of the shower
ParticleIterator(s, start) == CreateIterator(s, start)

\* lines 242-259, the iterator having been constructed with result ir
ReadIterator(rd, th, g, header, trailer, ir) ==
  IF ir.exc # "" THEN Raise(WithStream(rd, ir.s), ir.exc)
  ELSE ReadProfile([rd EXCEPT
                      !.fRawStream = Ptr(ir.s),
                      !.iter = Ptr(ir.it),
                      !.fCurrentShower =
                         Ptr(Shower(header, trailer, ir.it.start,
                                    rd.fObservationLevel, Field(header, 2) - 1))],
                   th, g)

\* a clamp that falls back to no level at all
LevelledToZero(rd, header) ==
  IF rd.fObservationLevel > Field(header, 2)
  THEN [rd EXCEPT !.fObservationLevel = 0] ELSE rd

\* lines 189-197
Levelled(rd, header) ==
  IF rd.fObservationLevel > Field(header, 2)
  THEN [rd EXCEPT !.fObservationLevel = 1] ELSE rd

\* lines 172-250, GetNextBlock(trailerBlock) having returned r
ReadTrailerBlock(rd, th, g, header, r) ==
  IF r.exc # "" THEN Raise(WithStream(rd, r.s), r.exc)
  ELSE IF ~r.ok \/ ~IsEventTrailer(r.block) THEN Status(WithStream(rd, r.s), eFail)
  ELSE ReadIterator(Levelled(WithStream(rd, r.s), header), th, g, header, r.block,
                    ParticleIterator(r.s,
                      rd.fIndex.eventHeaders[rd.fCurrentPosition + 1] + 1))

ReadTrailer(rd, th, g, header, r) ==
  IF r.exc # "" THEN Raise(WithStream(rd, r.s), r.exc)
  ELSE ReadTrailerBlock(rd, th, g, header, GetNextBlock(r.s, th))

\* lines 152-169, GetNextBlock(headerBlock) having returned r
ReadHeaderBlock(rd, th, g, r) ==
  IF r.exc # "" THEN Raise(WithStream(rd, r.s), r.exc)
  ELSE IF ~r.ok \/ ~IsEventHeader(r.block) THEN Status(WithStream(rd, r.s), eFail)
  ELSE ReadTrailer(rd, th, g, r.block,
                   SeekTo(r.s, At(rd.fIndex.eventTrailers, rd.fCurrentPosition, g)))

ReadHeader(rd, th, g, r) ==
  IF r.exc # "" THEN Raise(WithStream(rd, r.s), r.exc)
  ELSE ReadHeaderBlock(rd, th, g, GetNextBlock(r.s, th))

\* CorsikaShowerFile::Read<Thinning>; g is what a read past the end of a
\* position array yields
ReadThinning(rd, th, g) ==
  IF rd.fRawStream = Null \/ rd.fCurrentPosition >= Len(rd.fIndex.eventHeaders)
  THEN Status(rd, eEOF)
  ELSE ReadHeader(rd, th, g,
                  SeekTo(RStream(rd),
                         rd.fIndex.eventHeaders[rd.fCurrentPosition + 1]))

\* CorsikaShowerFile::Read
Read(rd, g) ==
  ReadThinning(rd, IF rd.fIsThinned THEN "Thinned" ELSE "NotThinned", g)

\* CorsikaShowerFile::IsOpen
IsOpen(rd) == rd.fRawStream # Null

\* a FindEvent that reads at the cursor instead of at the slot of the id
FindEventNoMove(rd, eventId, g) ==
  IF ~IsOpen(rd) THEN Status(rd, eEOF)
  ELSE IF eventId \notin DOMAIN rd.fIndex.IDToPosition
         \/ rd.fIndex.IDToPosition[eventId] >= Len(rd.fIndex.eventHeaders)
  THEN Status(rd, eFail)
  ELSE Read(rd, g)

\* a FindEvent that moves the cursor before it looks the id up
FindEventMovesFirst(rd, eventId, g) ==
  IF ~IsOpen(rd) THEN Status(rd, eEOF)
  ELSE IF eventId \notin DOMAIN rd.fIndex.IDToPosition
         \/ rd.fIndex.IDToPosition[eventId] >= Len(rd.fIndex.eventHeaders)
  THEN Status([rd EXCEPT !.fCurrentPosition = 0], eFail)
  ELSE Read([rd EXCEPT !.fCurrentPosition = rd.fIndex.IDToPosition[eventId]], g)

\* CorsikaShowerFile::FindEvent
FindEvent(rd, eventId, g) ==
  IF ~IsOpen(rd) THEN Status(rd, eEOF)
  ELSE IF eventId \notin DOMAIN rd.fIndex.IDToPosition
         \/ rd.fIndex.IDToPosition[eventId] >= Len(rd.fIndex.eventHeaders)
  THEN Status(rd, eFail)
  ELSE Read([rd EXCEPT !.fCurrentPosition = rd.fIndex.IDToPosition[eventId]], g)

\* a size that counts one event too many
IndexSizePlusOne(index) == Cardinality(DOMAIN index.IDToPosition) + 1

\* line 298: fIndex.IDToPosition.size()
IndexSize(index) == Cardinality(DOMAIN index.IDToPosition)

\* lines 294-298, the scan having returned sc
NEventsScanned(rd, sc) ==
  IF sc.exc # "" THEN Raise(WithStream(rd, sc.s), sc.exc)
  ELSE Out([rd EXCEPT !.fRawStream = Ptr(sc.s), !.fIndex = sc.index,
                      !.fFileScanned = TRUE],
           "", "", IndexSize(sc.index))

\* CorsikaShowerFile::GetNEvents
GetNEvents(rd) ==
  IF rd.fRawStream = Null THEN Raise(rd, ClosedFile)
  ELSE IF ~IsSeekable(RStream(rd)) THEN Raise(rd, NoRandomAccess)
  ELSE IF ~rd.fFileScanned THEN NEventsScanned(rd, Scan(RStream(rd)))
  ELSE Out(rd, "", "", IndexSize(rd.fIndex))

(***************************************************************************)
(* The shower facade in use: a client that opens files with and without    *)
(* the scan, closes, reads events, finds events and asks for their number, *)
(* in any order, on one reader object.                                     *)
(***************************************************************************)
\* the reader as a record
Me ==
  [fRawStream |-> fRawStream, iter |-> iter,
   fCurrentPosition |-> fCurrentPosition,
   fObservationLevel |-> fObservationLevel, fIsThinned |-> fIsThinned,
   fFileScanned |-> fFileScanned, fIndex |-> fIndex, fLongFile |-> fLongFile,
   fCorsikaLongFile |-> fCorsikaLongFile, fCurrentShower |-> fCurrentShower]

Becomes(rd) ==
  /\ fRawStream' = rd.fRawStream
  /\ iter' = rd.iter
  /\ fCurrentPosition' = rd.fCurrentPosition
  /\ fObservationLevel' = rd.fObservationLevel
  /\ fIsThinned' = rd.fIsThinned
  /\ fFileScanned' = rd.fFileScanned
  /\ fIndex' = rd.fIndex
  /\ fLongFile' = rd.fLongFile
  /\ fCorsikaLongFile' = rd.fCorsikaLongFile
  /\ fCurrentShower' = rd.fCurrentShower

\* the record of an operation of the reader
DidReader(op, arg, o) ==
  [op |-> op, arg |-> arg, status |-> o.status, exc |-> o.exc, value |-> o.value]

ReaderDone(op, arg, o, h) ==
  /\ Becomes(o.rd)
  /\ last' = DidReader(op, arg, o)
  /\ history' = h
  /\ UNCHANGED <<calls, rejected>>

\* what a read past the end of a position array may yield: the first block,
\* a block inside the file, a position past its end
GarbagePositions == {0, 3, 99}

\* the values to try for a read past the end: several where the index has
\* a position array shorter than the list of event headers
Garbage ==
  IF Len(fIndex.eventTrailers) < Len(fIndex.eventHeaders)
       \/ (Len(fIndex.longBlocks) > 0
             /\ Len(fIndex.longBlocks) < Len(fIndex.eventHeaders))
  THEN GarbagePositions ELSE {0}

ReaderUsable == last.exc # Diverges

\* event numbers asked for
EventIds == 1..(MaxEvents + 1)

\* the count of Read calls is kept up to this many
MaxReads == MaxEvents + 2

Opened(scan, o) ==
  ReaderDone("Open", scan, o,
             [opens |-> Min(history.opens + 1, 2), scan |-> scan,
              onlyReads |-> TRUE, reads |-> 0,
              scanDone |-> scan /\ o.exc = "", after |-> -1,
              before |-> history.after])

ReaderOpen(name, scan) ==
  /\ ReaderUsable
  /\ Opened(scan, Open(Me, name, scan, 0))

ReaderClose ==
  /\ ReaderUsable
  /\ ReaderDone("Close", 0, Status(Close(Me), ""),
                [history EXCEPT !.onlyReads = FALSE, !.reads = 0,
                                !.scanDone = FALSE, !.after = -1, !.before = history.after])

ReadReturned(o) ==
  ReaderDone("Read", 0, o,
             [history EXCEPT !.reads = IF history.onlyReads
                                       THEN Min(@ + 1, MaxReads) ELSE 0,
                             !.after = -1,
                             !.before = history.after])

ReaderRead ==
  /\ ReaderUsable
  /\ \E g \in Garbage : ReadReturned(Read(Me, g))

Found(eventId, o) ==
  ReaderDone("FindEvent", eventId, o,
             [history EXCEPT !.onlyReads = FALSE, !.reads = 0,
                             !.before = history.after,
                             !.after = IF o.status = eSuccess
                                       THEN fIndex.IDToPosition[eventId]
                                       ELSE -1])

ReaderFindEvent(eventId) ==
  /\ ReaderUsable
  /\ \E g \in Garbage : Found(eventId, FindEvent(Me, eventId, g))

Counted(o) ==
  ReaderDone("GetNEvents", 0, o,
             [history EXCEPT !.onlyReads = FALSE, !.reads = 0,
                             !.after = -1, !.before = history.after,
                             !.scanDone = @ \/ (fRawStream # Null
                                                  /\ ~fFileScanned
                                                  /\ o.exc = "")])

ReaderGetNEvents ==
  /\ ReaderUsable
  /\ Counted(GetNEvents(Me))

Next ==
  \/ \E name \in ReaderFiles : \E scan \in BOOLEAN : ReaderOpen(name, scan)
  \/ ReaderClose
  \/ ReaderRead
  \/ \E eventId \in EventIds : ReaderFindEvent(eventId)
  \/ ReaderGetNEvents

Spec == Init /\ [][Next]_vars

(***************************************************************************)
(* Properties of the shower facade.                                        *)
(***************************************************************************)
\* the file that is open
OpenFile == Stream.filename

\* the block at position pos of the open file
BlockAt(pos) == FileBlocks(OpenFile)[pos + 1]

\* the current shower is the event in slot
Presents(slot) ==
  /\ last.status = eSuccess /\ last.exc = ""
  /\ fCurrentShower # Null
  /\ fCurrentShower[1].header = BlockAt(fIndex.eventHeaders[slot + 1])
  /\ fCurrentShower[1].header =
       MkBlock(Tag("EVTH"), <<EventId(OpenFile, slot + 1), ObsLevels(OpenFile, slot + 1)>>)
  /\ fCurrentPosition = slot + 1

\* C1: on a newly constructed reader opened (with the scan, the default) on
\* a valid file with n events, the k-th Read returns eSuccess and presents
\* the event in slot k-1 for k <= n, and every later Read returns eEOF.
C1_ReadsEachEventOnce ==
  (last.op = "Read" /\ history.opens = 1 /\ history.scan /\ history.onlyReads
     /\ fRawStream # Null /\ ValidFile(OpenFile)) =>
    IF history.reads <= OpenFile.n THEN Presents(history.reads - 1)
    ELSE last.status = eEOF /\ last.exc = ""

\* C1 happens: the reads of a file with MaxEvents events on a source that
\* cannot seek have reached the end
C1_Witness ==
  /\ last.op = "Read" /\ history.opens = 1 /\ history.scan /\ history.onlyReads
  /\ fRawStream # Null /\ ValidFile(OpenFile) /\ ~OpenFile.seekable
  /\ OpenFile.n = MaxEvents /\ history.reads = MaxEvents + 1
  /\ last.status = eEOF /\ fCurrentPosition = MaxEvents

\* C2: FindEvent of an id in the map of a reader open on a valid file
\* returns eSuccess and presents the event of the slot of the id; a Read
\* directly afterwards presents the event of the next slot, or returns eEOF
\* after the last slot; FindEvent on a closed reader returns eEOF.
C2_FindEventThenRead ==
  /\ (last.op = "FindEvent" /\ fRawStream # Null /\ ValidFile(OpenFile)
        /\ last.arg \in DOMAIN fIndex.IDToPosition) =>
       (Presents(fIndex.IDToPosition[last.arg]) /\ history.after = fCurrentPosition - 1)
  /\ (last.op = "Read" /\ history.before >= 0 /\ ValidFile(OpenFile)) =>
       IF history.before + 1 < Len(fIndex.eventHeaders)
       THEN Presents(history.before + 1)
       ELSE last.status = eEOF
  /\ (last.op = "FindEvent" /\ fRawStream = Null) => last.status = eEOF

\* C2 happens: a Read directly after a successful FindEvent presented the
\* event of the next slot, the event numbers running against the slots
C2_Witness ==
  /\ last.op = "Read" /\ history.before = 0 /\ last.status = eSuccess
  /\ fRawStream # Null /\ ValidFile(OpenFile) /\ OpenFile.ids = "desc"
  /\ fCurrentPosition = 2

\* C3: FindEvent of an id that is not in the map of an open reader returns
\* eFail and changes nothing of the reader: the cursor, the current shower,
\* its iterator, the stream and the index stay as they are, so the next
\* Read presents what it would have presented without the call.
C3_FindEventUnknownId ==
  [][(last'.op = "FindEvent" /\ fRawStream # Null
        /\ last'.arg \notin DOMAIN fIndex.IDToPosition) =>
       (last'.status = eFail /\ last'.exc = ""
          /\ UNCHANGED <<fRawStream, iter, readerVars>>)]_vars

\* C3 happens: a FindEvent failed on a reader that is in the middle of a
\* file with a current shower
C3_Witness ==
  /\ last.op = "FindEvent" /\ last.status = eFail
  /\ fRawStream # Null /\ last.arg \notin DOMAIN fIndex.IDToPosition
  /\ fCurrentShower # Null /\ fCurrentPosition = 1
  /\ Len(fIndex.eventHeaders) = MaxEvents

\* C4: GetNEvents on an open reader scans the file when no scan was done
\* for the file now open, and returns the number of events of that file,
\* after any sequence of Open (with or without scan) and Close calls.
C4_NEventsForcesScan ==
  (last.op = "GetNEvents" /\ last.exc = "" /\ ValidFile(OpenFile)) =>
    (last.value = OpenFile.n /\ Len(fIndex.eventHeaders) = OpenFile.n)

\* the map is one-to-one from its domain onto the slots 0..n-1
IsBijection(map, n) ==
  /\ Cardinality(DOMAIN map) = n
  /\ {map[id] : id \in DOMAIN map} = 0..(n - 1)

\* C5: after a scan of a valid file the index has as many trailer positions
\* as header positions, one header per event of the file, and IDToPosition
\* is a bijection onto the slots; GetNEvents returns the number of headers.
C5_IndexAfterScan ==
  (fRawStream # Null /\ history.scanDone /\ ValidFile(OpenFile)) =>
    /\ Len(fIndex.eventHeaders) = Len(fIndex.eventTrailers)
    /\ Len(fIndex.eventHeaders) = OpenFile.n
    /\ \A i \in 1..Len(fIndex.eventHeaders) :
         IsEventHeader(BlockAt(fIndex.eventHeaders[i]))
    /\ IsBijection(fIndex.IDToPosition, Len(fIndex.eventHeaders))
    /\ (last.op = "GetNEvents" /\ last.exc = "") =>
         last.value = Len(fIndex.eventHeaders)

\* C5 happens: GetNEvents scanned a file opened without the scan and
\* returned its MaxEvents events, the event numbers running against the slots
C5_Witness ==
  /\ last.op = "GetNEvents" /\ last.exc = "" /\ last.value = MaxEvents
  /\ fRawStream # Null /\ history.scanDone /\ ~history.scan
  /\ ValidFile(OpenFile) /\ OpenFile.ids = "desc"
  /\ Len(fIndex.eventHeaders) = MaxEvents

\* where the profile of the event in slot of the open file is to come from:
\* the stream when the event has a longitudinal chain, else the .long file
\* when there is one (its profile, or none when it holds too few), else
\* nowhere
ProfileSources(slot) ==
  IF HasLong(OpenFile, slot + 1) THEN {"stream"}
  ELSE IF OpenFile.side >= 0 THEN {"file", "cleared"}
  ELSE {"none"}

\* C12: on a file with whole framing a Read of a slot never fails, and the
\* profile of the shower it presents comes from the stream only when the
\* index has a longitudinal block for that slot, else from the .long file
\* when there is one, and is empty otherwise.
C12_ProfileSourcePerSlot ==
  (last.op \in {"Read", "FindEvent"} /\ fRawStream # Null
     /\ OpenFile.dmg = NoDamage) =>
    /\ last.op = "Read" => (last.exc = "" /\ last.status \in {eSuccess, eEOF})
    /\ last.status = eSuccess =>
         fCurrentShower[1].profile.source \in ProfileSources(fCurrentPosition - 1)

\* the observation level both constructors request
RequestedLevel == 1

\* the requested level clamped to the levels a header declares
ClampedLevel(header) ==
  IF RequestedLevel \in 1..Field(header, 2) THEN RequestedLevel ELSE 1

C17_IteratorFirstBlock ==
  (last.op \in {"Read", "FindEvent"} /\ last.status = eSuccess
     /\ ValidFile(OpenFile)) =>
    /\ GetNextPosition(Stream) = fIndex.eventHeaders[fCurrentPosition] + 1
    /\ IteratorNext(iter[1], Stream).read =
         BlockAt(fIndex.eventHeaders[fCurrentPosition] + 1)

\* C18: the observation height the time shift of an event is computed with
\* is fObservationHeight[L - 1], L being the observation level used for the
\* event.
C18_HeightOfUsedLevel ==
  (last.op \in {"Read", "FindEvent"} /\ last.status = eSuccess) =>
    fCurrentShower[1].heightIndex = fCurrentShower[1].level - 1

\* the depths of the entries of the chain of slot, block after block
ChainDepths(slot) ==
  [k \in 1..(LongChainBlocks * kLongEntriesPerBlock) |->
     Depth(BlockAt(fIndex.longBlocks[slot + 1]
                     + (k - 1) \div kLongEntriesPerBlock),
           (k - 1) % kLongEntriesPerBlock)]

\* the entries of depths before its first zero past index 0
RECURSIVE UpToFirstZero(_, _)
UpToFirstZero(depths, k) ==
  IF k > Len(depths) \/ (k > 1 /\ depths[k] = 0) THEN SubSeq(depths, 1, k - 1)
  ELSE UpToFirstZero(depths, k + 1)

\* C20: the profile assembled from the chain of an event holds the entries
\* of the chain up to the first entry with depth 0 at an index above 0, and
\* no entry after it, be it in the same block or in a later one.
C20_StopsAtFirstZeroDepth ==
  (last.op \in {"Read", "FindEvent"} /\ last.status = eSuccess
     /\ ValidFile(OpenFile) /\ fCurrentShower[1].profile.source = "stream") =>
    fCurrentShower[1].profile.depth =
      UpToFirstZero(ChainDepths(fCurrentPosition - 1), 1)

\* n_steps of the chain of slot: the header word of its first block by 100
ChainSteps(slot) == Field(BlockAt(fIndex.longBlocks[slot + 1]), 1) \div 100

\* C21: the columns of a profile assembled from the chain of an event (one
\* entry of the profile is one element of each column) have the length
\* n_steps that the header word of the first block of the chain declares.
C21_LengthIsNSteps ==
  (last.op \in {"Read", "FindEvent"} /\ last.status = eSuccess
     /\ OpenFile.dmg = NoDamage /\ fCurrentPosition <= Len(fIndex.longBlocks)
     /\ fCurrentShower[1].profile.source = "stream") =>
    Len(fCurrentShower[1].profile.depth) = ChainSteps(fCurrentPosition - 1)

\* C22: when the profile of an event comes from the .long file, whose
\* parser holds n profiles, the Read of slot s takes the profile at
\* position s when s < n and clears the profile otherwise; the parser is
\* never asked for a profile at a position >= n.
C22_SideFileGuard ==
  (last.op \in {"Read", "FindEvent"} /\ last.status = eSuccess
     /\ fCurrentShower[1].profile.source \in {"file", "cleared"}) =>
    IF fCurrentPosition - 1 < LongFileSize(fCorsikaLongFile[1])
    THEN /\ fCurrentShower[1].profile.source = "file"
         /\ fCurrentShower[1].profile.index = fCurrentPosition - 1
    ELSE fCurrentShower[1].profile.source = "cleared"

\* CorsikaShowerFile::CorsikaShowerFile(): a newly constructed reader
NewReader ==
  [fRawStream |-> Null, iter |-> Null, fCurrentPosition |-> 0,
   fObservationLevel |-> 1, fIsThinned |-> TRUE, fFileScanned |-> FALSE,
   fIndex |-> EmptyIndex, fLongFile |-> Null, fCorsikaLongFile |-> Null,
   fCurrentShower |-> Null]

\* the outcomes d and v of a Read cannot be told apart: the same status,
\* and after a success the same shower and the same cursor
SameRead(d, v) ==
  /\ d.status = v.status
  /\ d.exc = v.exc
  /\ d.status = eSuccess =>
       /\ d.rd.fCurrentShower = v.rd.fCurrentShower
       /\ d.rd.fCurrentPosition = v.rd.fCurrentPosition

\* the reader is in the state of the newly constructed reader fresh after
\* its Open on the same file: the cursor at the first slot, the index and
\* its scanned flag those of the file, the parser of the .long file, when
\* loaded, that of the companion of the file; and the next Read is the same
OpenedAsNew(fresh) ==
  /\ fCurrentPosition = 0
  /\ fIndex = fresh.fIndex
  /\ fFileScanned = fresh.fFileScanned
  /\ fLongFile = fresh.fLongFile
  /\ fCorsikaLongFile \in {Null, fLongFile}
  /\ SameRead(Read(Me, 0), Read(fresh, 0))

\* C24: Open on a reader that was used before, closed or not, leaves it in
\* the state of a newly constructed reader opened on the same file, so that
\* the next Read presents slot 0 of the file with the profile of the file.
C24_ReopenAsNew ==
  /\ (last.op = "Open" /\ last.exc = "") =>
       OpenedAsNew(Open(NewReader, OpenFile, last.arg, 0).rd)
  /\ (last.op = "Read" /\ last.status = eSuccess /\ history.onlyReads
        /\ fCurrentShower[1].profile.source \in {"file", "cleared"}) =>
       fCorsikaLongFile = fLongFile
=============================================================================
